---- MODULE Spec2Model ----
(***************************************************************************)
(* A model of package collider: the spatial hash (SpatialHash with its     *)
(* Hash and Backref maps), the shapes and the narrow-phase routines, in    *)
(* the revision that has PointShape, collisionRectCirc and                 *)
(* collisionCircCirc.                                                      *)
(*                                                                         *)
(* float64 values are modelled exactly: every input is an integer, every   *)
(* Width and Height is even (so Width/2 is exact), the sampling step of    *)
(* Add is kept as a fraction n/d, and the result of                        *)
(* Normalize().Mult(depth) is kept in symbolic form (see Vector).          *)
(*                                                                         *)
(* A shape (a value of the Shape interface) is a key [id, pt]: id names    *)
(* the struct allocated, pt says whether the key is the *PointShape that   *)
(* wraps that struct.  A *Cell is named by its CellCoord: a cell, once     *)
(* made, is never replaced.  ret holds what the last call returned.        *)
(***************************************************************************)
EXTENDS Integers, Sequences, FiniteSets, TLC

\* ------------------------------------------------------------------ bounds
MaxCoord == 3       \* rectangle centres of the narrow-phase runs lie in -MaxCoord..MaxCoord
MaxAdds == 1        \* direct calls of Add per run (factories and moves are not counted)

\* inputs
CellSizes == {-5, 2}
PosX == {0, 3}
PosY == {0}
RectDims == {<<0, 0>>, <<2, 2>>, <<0, 4>>, <<6, 2>>}
Radii == {1}
Deltas == {<<3, 0>>, <<-3, 0>>}
VARIABLES pc, adds, args, CellSize, Hash, Backref, objs, ret

vars == <<pc, adds, args, CellSize, Hash, Backref, objs, ret>>

\* the structs a run may allocate
Ids == {1, 2}
NoObj == [kind |-> "none"]
Nil == [id |-> 0, pt |-> FALSE]
ErrNil == "nil"
ErrShapeNotFound == "ErrShapeNotFound"

\* ------------------------------------------------------------------ shapes
RectangleShape(x, y, w, h) ==
    [kind |-> "RectangleShape", X |-> x, Y |-> y, Width |-> w, Height |-> h,
     Radius |-> 0, SpatialHash |-> FALSE, wrapped |-> FALSE]

CircleShape(x, y, r) ==
    [kind |-> "CircleShape", X |-> x, Y |-> y, Width |-> 0, Height |-> 0,
     Radius |-> r, SpatialHash |-> FALSE, wrapped |-> FALSE]

Key(i) == [id |-> i, pt |-> FALSE]
PointKey(i) == [id |-> i, pt |-> TRUE]

\* the shapes the caller holds
Keys(os) ==
    {Key(i) : i \in {j \in Ids : os[j] # NoObj}}
        \cup {PointKey(i) : i \in {j \in Ids : os[j] # NoObj /\ os[j].wrapped}}

\* the dynamic type a type switch sees
TypeOf(os, k) == IF k = Nil THEN "nil" ELSE IF k.pt THEN "PointShape" ELSE os[k.id].kind

\* methods of *PointShape are those of the embedded *RectangleShape
Receiver(k) == Key(k.id)

GetBounds(o) ==
    IF o.kind = "CircleShape"
    THEN <<o.X - o.Radius, o.Y - o.Radius, o.X + o.Radius, o.Y + o.Radius>>
    ELSE <<o.X - o.Width \div 2, o.Y - o.Height \div 2,
           o.X + o.Width \div 2, o.Y + o.Height \div 2>>

GetHash(o) == o.SpatialHash

\* ------------------------------------------------------------------ Add
FloorDiv(a, b) == IF b > 0 THEN a \div b ELSE (-a) \div (-b)

\* xStep as a fraction n/d
StepOf(extent, cs) ==
    IF extent > cs THEN [n |-> extent, d |-> cs] ELSE [n |-> extent, d |-> 1]

\* for x := lo; x <= hi; x += step never ends, or ends only when the body leaves it
StepNegative(extent, cs) == cs < 0 /\ extent > 0

\* cell indices of the samples lo, lo+step, ... <= hi on one axis (cs > 0, extent > 0)
AxisCells(lo, hi, cs) ==
    LET st == StepOf(hi - lo, cs)
        last == ((hi - lo) * st.d) \div st.n
    IN  [k \in 1..(last + 1) |-> FloorDiv(lo * st.d + (k - 1) * st.n, st.d * cs)]

\* the cells the loop body visits, in order (cs # 0, loop ends)
AddCells(b, cs) ==
    IF b[3] - b[1] = 0 \/ b[4] - b[2] = 0
    THEN <<  <<FloorDiv(b[1], cs), FloorDiv(b[2], cs)>>  >>
    ELSE LET xs == AxisCells(b[1], b[3], cs)
             ys == AxisCells(b[2], b[4], cs)
         IN  [i \in 1..(Len(xs) * Len(ys)) |->
                 <<xs[((i - 1) \div Len(ys)) + 1], ys[((i - 1) % Len(ys)) + 1]>>]

\* every list of cells one call of Add may visit; {} when the call never returns
\* (CellSize = 0 divides by zero and is not among CellSizes)
AddOutcomes(b, cs) ==
    IF StepNegative(b[3] - b[1], cs) /\ StepNegative(b[4] - b[2], cs)
    THEN {}
    ELSE {AddCells(b, cs)}

RECURSIVE HashWith(_, _, _)
HashWith(h, cells, k) ==
    IF cells = <<>> THEN h
    ELSE LET c == Head(cells)
             cur == IF c \in DOMAIN h THEN h[c] ELSE {}
         IN  HashWith([x \in DOMAIN h \cup {c} |-> IF x = c THEN cur \cup {k} ELSE h[x]],
                      Tail(cells), k)

BackrefWith(br, cells, k) ==
    [x \in DOMAIN br \cup {k} |->
        IF x = k THEN (IF k \in DOMAIN br THEN br[k] ELSE <<>>) \o cells ELSE br[x]]

SetHash(os, k) == [os EXCEPT ![k.id].SpatialHash = TRUE]

\* ------------------------------------------------------------------ Remove
CellsOf(seq) == {seq[i] : i \in 1..Len(seq)}

\* Remove that clears the backref list but leaves the cells alone
HashWithoutKept(h, br, k) == h

HashWithout(h, br, k) ==
    IF k \in DOMAIN br
    THEN [c \in DOMAIN h |-> IF c \in CellsOf(br[k]) THEN h[c] \ {k} ELSE h[c]]
    ELSE h

\* Remove that empties the cells but keeps the backref list
BackrefWithoutKept(br, k) == br

BackrefWithout(br, k) ==
    IF k \in DOMAIN br THEN [br EXCEPT ![k] = <<>>] ELSE br

RemoveResult(br, k) == ErrShapeNotFound

\* ------------------------------------------------------------------ Vector
\* scaled = FALSE: the vector (X, Y).
\* scaled = TRUE : the vector (X, Y).Normalize().Mult(R - |(X, Y)|), (X, Y) # (0, 0)
Vector(x, y) == [X |-> x, Y |-> y, R |-> 0, scaled |-> FALSE]

Sub(v, o) == Vector(v.X - o.X, v.Y - o.Y)

SqLength(v) == v.X * v.X + v.Y * v.Y

\* v.Length() > 0
LengthPositive(v) ==
    IF v.scaled THEN v.R * v.R # SqLength(v) ELSE SqLength(v) > 0

\* v.Mult(-1)
Negate(v) == [v EXCEPT !.X = -v.X, !.Y = -v.Y]

\* dist.Normalize().Mult(depth) with depth = sumRadii - dist.Length()
NormalizeMult(dist, sumRadii) ==
    IF SqLength(dist) > 0
    THEN [X |-> dist.X, Y |-> dist.Y, R |-> sumRadii, scaled |-> TRUE]
    ELSE Vector(0, 0)

Abs(a) == IF a < 0 THEN -a ELSE a

\* ------------------------------------------------------------------ narrow phase
Overlap1D(aLo, aHi, bLo, bHi) ==
    \/ (aHi >= bLo /\ aHi <= bHi)
    \/ (aLo >= bLo /\ aLo <= bHi)
    \/ (aLo >= bLo /\ aHi <= bHi)
    \/ (bLo >= aLo /\ bHi <= aHi)

\* collisionRectRect that returns both pushes instead of the smaller one
collisionRectRectBothAxes(r1, r2) ==
    LET b1 == GetBounds(r1)
        b2 == GetBounds(r2)
        dx == IF r1.X < r2.X
              THEN r2.X - r2.Width \div 2 - r1.X - r1.Width \div 2
              ELSE r2.X + r2.Width \div 2 - r1.X + r1.Width \div 2
        dy == IF r1.Y < r2.Y
              THEN r2.Y - r2.Height \div 2 - r1.Y - r1.Height \div 2
              ELSE r2.Y + r2.Height \div 2 - r1.Y + r1.Height \div 2
    IN  IF ~(Overlap1D(b1[1], b1[3], b2[1], b2[3]) /\ Overlap1D(b1[2], b1[4], b2[2], b2[4]))
        THEN Vector(0, 0)
        ELSE Vector(dx, dy)

\* collisionRectRect that keeps the larger push (comparison turned round)
collisionRectRectLargerAxis(r1, r2) ==
    LET b1 == GetBounds(r1)
        b2 == GetBounds(r2)
        dx == IF r1.X < r2.X
              THEN r2.X - r2.Width \div 2 - r1.X - r1.Width \div 2
              ELSE r2.X + r2.Width \div 2 - r1.X + r1.Width \div 2
        dy == IF r1.Y < r2.Y
              THEN r2.Y - r2.Height \div 2 - r1.Y - r1.Height \div 2
              ELSE r2.Y + r2.Height \div 2 - r1.Y + r1.Height \div 2
    IN  IF ~(Overlap1D(b1[1], b1[3], b2[1], b2[3]) /\ Overlap1D(b1[2], b1[4], b2[2], b2[4]))
        THEN Vector(0, 0)
        ELSE IF Abs(dx) > Abs(dy) THEN Vector(dx, 0) ELSE Vector(0, dy)

\* collisionRectRect with the centre tests turned round (> where the code has <)
collisionRectRectFarSide(r1, r2) ==
    LET b1 == GetBounds(r1)
        b2 == GetBounds(r2)
        dx == IF r1.X > r2.X
              THEN r2.X - r2.Width \div 2 - r1.X - r1.Width \div 2
              ELSE r2.X + r2.Width \div 2 - r1.X + r1.Width \div 2
        dy == IF r1.Y > r2.Y
              THEN r2.Y - r2.Height \div 2 - r1.Y - r1.Height \div 2
              ELSE r2.Y + r2.Height \div 2 - r1.Y + r1.Height \div 2
    IN  IF ~(Overlap1D(b1[1], b1[3], b2[1], b2[3]) /\ Overlap1D(b1[2], b1[4], b2[2], b2[4]))
        THEN Vector(0, 0)
        ELSE IF Abs(dx) < Abs(dy) THEN Vector(dx, 0) ELSE Vector(0, dy)

collisionRectRect(r1, r2) ==
    LET b1 == GetBounds(r1)
        b2 == GetBounds(r2)
        dx == IF r1.X < r2.X
              THEN r2.X - r2.Width \div 2 - r1.X - r1.Width \div 2
              ELSE r2.X + r2.Width \div 2 - r1.X + r1.Width \div 2
        dy == IF r1.Y < r2.Y
              THEN r2.Y - r2.Height \div 2 - r1.Y - r1.Height \div 2
              ELSE r2.Y + r2.Height \div 2 - r1.Y + r1.Height \div 2
    IN  IF ~(Overlap1D(b1[1], b1[3], b2[1], b2[3]) /\ Overlap1D(b1[2], b1[4], b2[2], b2[4]))
        THEN Vector(0, 0)
        ELSE IF Abs(dx) < Abs(dy) THEN Vector(dx, 0) ELSE Vector(0, dy)

collisionCircCirc(c1, c2) ==
    LET dist == Sub(Vector(c1.X, c1.Y), Vector(c2.X, c2.Y))
        sumRadii == c1.Radius + c2.Radius
    IN  IF sumRadii * sumRadii < SqLength(dist)      \* depth < 0
        THEN Vector(0, 0)
        ELSE NormalizeMult(dist, sumRadii)

\* collisionRectCirc that returns rr only for a centre inside the rectangle on both
\* axes (&& where the code has ||)
collisionRectCircInsideBothAxes(r1, c1) ==
    LET rr == collisionRectRect(r1, RectangleShape(c1.X, c1.Y, c1.Radius * 2, c1.Radius * 2))
        b == GetBounds(r1)
        left == b[1]
        up == b[2]
        right == b[3]
        down == b[4]
        inside ==
            IF r1.X > c1.X
            THEN IF r1.Y > c1.Y
                 THEN c1.X > left /\ c1.Y > up
                 ELSE c1.X > left /\ c1.Y < down
            ELSE IF r1.Y > c1.Y
                 THEN c1.X < right /\ c1.Y > up
                 ELSE c1.X < right /\ c1.Y < down
        co == IF r1.X > c1.X
              THEN IF r1.Y > c1.Y THEN Vector(left, up) ELSE Vector(left, down)
              ELSE IF r1.Y > c1.Y THEN Vector(right, up) ELSE Vector(right, down)
    IN  IF ~LengthPositive(rr) THEN rr
        ELSE IF inside THEN rr
        ELSE collisionCircCirc(CircleShape(co.X, co.Y, 0), c1)

collisionRectCirc(r1, c1) ==
    LET rr == collisionRectRect(r1, RectangleShape(c1.X, c1.Y, c1.Radius * 2, c1.Radius * 2))
        b == GetBounds(r1)
        left == b[1]
        up == b[2]
        right == b[3]
        down == b[4]
        inside ==
            IF r1.X > c1.X
            THEN IF r1.Y > c1.Y
                 THEN c1.X > left \/ c1.Y > up
                 ELSE c1.X > left \/ c1.Y < down
            ELSE IF r1.Y > c1.Y
                 THEN c1.X < right \/ c1.Y > up
                 ELSE c1.X < right \/ c1.Y < down
        co == IF r1.X > c1.X
              THEN IF r1.Y > c1.Y THEN Vector(left, up) ELSE Vector(left, down)
              ELSE IF r1.Y > c1.Y THEN Vector(right, up) ELSE Vector(right, down)
    IN  IF ~LengthPositive(rr) THEN rr
        ELSE IF inside THEN rr
        ELSE collisionCircCirc(CircleShape(co.X, co.Y, 0), c1)

\* ------------------------------------------------------------------ queries
ShapesMap(h, br, k) ==
    (IF k \in DOMAIN br THEN UNION {h[c] : c \in CellsOf(br[k])} ELSE {}) \ {k}

\* make([]Shape, len(shapesMap)) followed by append in map order (any order)
CandidateLists(h, br, k) ==
    LET m == ShapesMap(h, br, k)
        n == Cardinality(m)
        orders == {p \in [1..n -> m] : \A i, j \in 1..n : p[i] = p[j] => i = j}
    IN  {[i \in 1..n |-> Nil] \o p : p \in orders}

\* var col *Vector after the type switches: nil when no case matches
NilCol == [isNil |-> TRUE, v |-> Vector(0, 0)]
Ptr(v) == [isNil |-> FALSE, v |-> v]

Col(os, k, cand) ==
    LET t == TypeOf(os, k)
        u == TypeOf(os, cand)
    IN  IF t = "RectangleShape" /\ u = "RectangleShape"
            THEN Ptr(collisionRectRect(os[k.id], os[cand.id]))
        ELSE IF t = "RectangleShape" /\ u = "CircleShape"
            THEN Ptr(collisionRectCirc(os[k.id], os[cand.id]))
        ELSE IF t = "CircleShape" /\ u = "RectangleShape"
            THEN Ptr(Negate(collisionRectCirc(os[cand.id], os[k.id])))
        ELSE IF t = "CircleShape" /\ u = "CircleShape"
            THEN Ptr(collisionCircCirc(os[k.id], os[cand.id]))
        ELSE NilCol

\* col != nil && col.Length() > 0
Reported(os, k, cand) == ~Col(os, k, cand).isNil /\ LengthPositive(Col(os, k, cand).v)

\* CheckCollisions that appends every computed vector, zero or not
RECURSIVE CollisionsUnfiltered(_, _, _)
CollisionsUnfiltered(os, k, candidates) ==
    IF candidates = <<>> THEN <<>>
    ELSE (IF ~Col(os, k, Head(candidates)).isNil
          THEN <<[Other |-> Head(candidates),
                  SeparatingVector |-> Col(os, k, Head(candidates)).v]>>
          ELSE <<>>) \o CollisionsUnfiltered(os, k, Tail(candidates))

RECURSIVE Collisions(_, _, _)
Collisions(os, k, candidates) ==
    IF candidates = <<>> THEN <<>>
    ELSE (IF Reported(os, k, Head(candidates))
          THEN <<[Other |-> Head(candidates),
                  SeparatingVector |-> Col(os, k, Head(candidates)).v]>>
          ELSE <<>>) \o Collisions(os, k, Tail(candidates))

\* ------------------------------------------------------------------ state machine
EmptyMap == [x \in {} |-> {}]

Init ==
    /\ pc = "nogrid"
    /\ adds = 0
    /\ args = <<>>
    /\ CellSize = 0
    /\ Hash = EmptyMap
    /\ Backref = EmptyMap
    /\ objs = [i \in Ids |-> NoObj]
    /\ ret = [op |-> "none"]

NewSpatialHash(cellSize) ==
    /\ pc = "nogrid"
    /\ pc' = "ready"
    /\ CellSize' = cellSize
    /\ Hash' = EmptyMap
    /\ Backref' = EmptyMap
    /\ ret' = [op |-> "NewSpatialHash", cellSize |-> cellSize, err |-> ErrNil]
    /\ UNCHANGED <<adds, args, objs>>

\* s.Add(k) on the state (h, br, os); the call returns unless AddOutcomes is empty
AddCall(h, br, os, k, r) ==
    LET outcomes == AddOutcomes(GetBounds(os[k.id]), CellSize)
    IN  IF outcomes = {}
        THEN /\ pc' = "diverged"
             /\ Hash' = h
             /\ Backref' = br
             /\ objs' = os
             /\ ret' = r
             /\ UNCHANGED <<args, CellSize>>
        ELSE \E cells \in outcomes :
             /\ Hash' = HashWith(h, cells, k)
             /\ Backref' = BackrefWith(br, cells, k)
             /\ objs' = SetHash(os, k)
             /\ ret' = r
             /\ UNCHANGED <<pc, args, CellSize>>

FreeId == CHOOSE i \in Ids : objs[i] = NoObj /\ \A j \in Ids : j < i => objs[j] # NoObj

NewRectangleShape(x, y, w, h) ==
    /\ pc = "ready"
    /\ \E i \in Ids : objs[i] = NoObj
    /\ AddCall(Hash, Backref, [objs EXCEPT ![FreeId] = RectangleShape(x, y, w, h)],
               Key(FreeId),
               [op |-> "NewRectangleShape", key |-> Key(FreeId), returned |-> Key(FreeId),
                x |-> x, y |-> y])
    /\ UNCHANGED adds

NewCircleShape(x, y, r) ==
    /\ pc = "ready"
    /\ \E i \in Ids : objs[i] = NoObj
    /\ AddCall(Hash, Backref, [objs EXCEPT ![FreeId] = CircleShape(x, y, r)],
               Key(FreeId),
               [op |-> "NewCircleShape", key |-> Key(FreeId), returned |-> Key(FreeId),
                x |-> x, y |-> y])
    /\ UNCHANGED adds

\* &PointShape{s.NewRectangleShape(0, 0, 0, 0)}: the struct registered is the embedded
\* rectangle, the value returned is the wrapper
NewPointShape(x, y) ==
    /\ pc = "ready"
    /\ \E i \in Ids : objs[i] = NoObj
    /\ AddCall(Hash, Backref,
               [objs EXCEPT ![FreeId] = [RectangleShape(0, 0, 0, 0) EXCEPT !.wrapped = TRUE]],
               Key(FreeId),
               [op |-> "NewPointShape", key |-> Key(FreeId), returned |-> PointKey(FreeId),
                x |-> x, y |-> y])
    /\ UNCHANGED adds

\* a shape built by the caller as a struct literal: no grid knows it
LiteralRectangleShape(x, y, w, h) ==
    /\ pc = "ready"
    /\ \E i \in Ids : objs[i] = NoObj
    /\ objs' = [objs EXCEPT ![FreeId] = RectangleShape(x, y, w, h)]
    /\ ret' = [op |-> "literal", key |-> Key(FreeId)]
    /\ UNCHANGED <<pc, adds, args, CellSize, Hash, Backref>>

LiteralCircleShape(x, y, r) ==
    /\ pc = "ready"
    /\ \E i \in Ids : objs[i] = NoObj
    /\ objs' = [objs EXCEPT ![FreeId] = CircleShape(x, y, r)]
    /\ ret' = [op |-> "literal", key |-> Key(FreeId)]
    /\ UNCHANGED <<pc, adds, args, CellSize, Hash, Backref>>

Add(k) ==
    /\ pc = "ready"
    /\ k \in Keys(objs)
    /\ adds < MaxAdds
    /\ adds' = adds + 1
    /\ AddCall(Hash, Backref, objs, k, [op |-> "Add", key |-> k])

Remove(k) ==
    /\ pc = "ready"
    /\ k \in Keys(objs)
    /\ Hash' = HashWithout(Hash, Backref, k)
    /\ Backref' = BackrefWithout(Backref, k)
    /\ ret' = [op |-> "Remove", key |-> k, err |-> RemoveResult(Backref, k),
               entries |-> IF k \in DOMAIN Backref THEN Len(Backref[k]) ELSE 0]
    /\ UNCHANGED <<pc, adds, args, CellSize, objs>>

\* the body shared by Move and MoveTo once the position is written
Reinsert(os, k, op) ==
    IF ~GetHash(os[k.id])
    THEN /\ pc' = "panicked"          \* hash.Remove on a nil *SpatialHash
         /\ objs' = os
         /\ ret' = [op |-> op, key |-> k]
         /\ UNCHANGED <<args, CellSize, Hash, Backref>>
    ELSE AddCall(HashWithout(Hash, Backref, k), BackrefWithout(Backref, k), os, k,
                 [op |-> op, key |-> k])

Move(k, x, y) ==
    /\ pc = "ready"
    /\ k \in Keys(objs)
    /\ objs[k.id].X + x \in PosX
    /\ objs[k.id].Y + y \in PosY
    /\ Reinsert([objs EXCEPT ![k.id].X = @ + x, ![k.id].Y = @ + y], Receiver(k), "Move")
    /\ UNCHANGED adds

MoveTo(k, x, y) ==
    /\ pc = "ready"
    /\ k \in Keys(objs)
    /\ Reinsert([objs EXCEPT ![k.id].X = x, ![k.id].Y = y], Receiver(k), "MoveTo")
    /\ UNCHANGED adds

GetCollisionCandidates(k) ==
    /\ pc = "ready"
    /\ k \in Keys(objs)
    /\ \E shapes \in CandidateLists(Hash, Backref, k) :
           ret' = [op |-> "GetCollisionCandidates", key |-> k, shapes |-> shapes]
    /\ UNCHANGED <<pc, adds, args, CellSize, Hash, Backref, objs>>

CheckCollisions(k) ==
    /\ pc = "ready"
    /\ k \in Keys(objs)
    /\ \E candidates \in CandidateLists(Hash, Backref, k) :
           ret' = [op |-> "CheckCollisions", key |-> k, candidates |-> candidates,
                   collisions |-> Collisions(objs, k, candidates), err |-> ErrNil]
    /\ UNCHANGED <<pc, adds, args, CellSize, Hash, Backref, objs>>

Next ==
    \/ \E cs \in CellSizes : NewSpatialHash(cs)
    \/ \E x \in PosX, y \in PosY, d \in RectDims : NewRectangleShape(x, y, d[1], d[2])
    \/ \E x \in PosX, y \in PosY, r \in Radii : NewCircleShape(x, y, r)
    \/ \E x \in PosX, y \in PosY : NewPointShape(x, y)
    \/ \E x \in PosX, y \in PosY, d \in RectDims : LiteralRectangleShape(x, y, d[1], d[2])
    \/ \E x \in PosX, y \in PosY, r \in Radii : LiteralCircleShape(x, y, r)
    \/ \E k \in Keys(objs) : Add(k)
    \/ \E k \in Keys(objs) : Remove(k)
    \/ \E k \in Keys(objs), d \in Deltas : Move(k, d[1], d[2])
    \/ \E k \in Keys(objs), x \in PosX, y \in PosY : MoveTo(k, x, y)
    \/ \E k \in Keys(objs) : GetCollisionCandidates(k)
    \/ \E k \in Keys(objs) : CheckCollisions(k)

Spec == Init /\ [][Next]_vars

\* ------------------------------------------------------------------ narrow phase alone
\* collisionRectRect applied to pairs of rectangles drawn from bounded sets
PureDims == {0, 2, 4}
PureRects1 ==
    {RectangleShape(x, 0, w, h) : x \in {0, 1}, w \in PureDims, h \in PureDims}
PureRects2 ==
    {RectangleShape(x, y, w, h) :
        x \in -MaxCoord..MaxCoord, y \in -MaxCoord..MaxCoord, w \in PureDims, h \in PureDims}
\* rectangle A centre (0,0) 10x10, rectangle B centre (8,0) 10x10
ScenarioRects == <<RectangleShape(0, 0, 10, 10), RectangleShape(8, 0, 10, 10)>>

InitRect ==
    /\ pc = "pure"
    /\ adds = 0
    /\ args \in ({<<r1, r2>> : r1 \in PureRects1, r2 \in PureRects2} \cup {ScenarioRects})
    /\ CellSize = 0
    /\ Hash = EmptyMap
    /\ Backref = EmptyMap
    /\ objs = [i \in Ids |-> NoObj]
    /\ ret = [op |-> "none"]

CallRectRect ==
    /\ pc = "pure"
    /\ ret.op = "none"
    /\ ret' = [op |-> "collisionRectRect", v |-> collisionRectRect(args[1], args[2])]
    /\ UNCHANGED <<pc, adds, args, CellSize, Hash, Backref, objs>>

NextRect == CallRectRect

SpecRect == InitRect /\ [][NextRect]_vars

\* collisionCircCirc applied to pairs of circles drawn from bounded sets
PureRadii == {0, 1, 2}
PureCircs1 == {CircleShape(x, 0, r) : x \in {0, 1}, r \in PureRadii}
PureCircs2 ==
    {CircleShape(x, y, r) : x \in -MaxCoord..MaxCoord, y \in -MaxCoord..MaxCoord, r \in PureRadii}
\* circle A centre (0,0) radius 5, circle B centre (8,0) radius 5
ScenarioCircs == <<CircleShape(0, 0, 5), CircleShape(8, 0, 5)>>

InitCirc ==
    /\ pc = "pure"
    /\ adds = 0
    /\ args \in ({<<c1, c2>> : c1 \in PureCircs1, c2 \in PureCircs2} \cup {ScenarioCircs})
    /\ CellSize = 0
    /\ Hash = EmptyMap
    /\ Backref = EmptyMap
    /\ objs = [i \in Ids |-> NoObj]
    /\ ret = [op |-> "none"]

CallCircCirc ==
    /\ pc = "pure"
    /\ ret.op = "none"
    /\ ret' = [op |-> "collisionCircCirc", v |-> collisionCircCirc(args[1], args[2])]
    /\ UNCHANGED <<pc, adds, args, CellSize, Hash, Backref, objs>>

NextCirc == CallCircCirc

SpecCirc == InitCirc /\ [][NextCirc]_vars

\* collisionRectCirc applied to a rectangle and a circle drawn from bounded sets
PureRects0 == {RectangleShape(0, 0, w, h) : w \in PureDims, h \in PureDims}

InitRectCirc ==
    /\ pc = "pure"
    /\ adds = 0
    /\ args \in {<<r1, c1>> : r1 \in PureRects0, c1 \in PureCircs2}
    /\ CellSize = 0
    /\ Hash = EmptyMap
    /\ Backref = EmptyMap
    /\ objs = [i \in Ids |-> NoObj]
    /\ ret = [op |-> "none"]

CallRectCirc ==
    /\ pc = "pure"
    /\ ret.op = "none"
    /\ ret' = [op |-> "collisionRectCirc", v |-> collisionRectCirc(args[1], args[2])]
    /\ UNCHANGED <<pc, adds, args, CellSize, Hash, Backref, objs>>

NextRectCirc == CallRectCirc

SpecRectCirc == InitRectCirc /\ [][NextRectCirc]_vars

\* ------------------------------------------------------------------ resolving a collision
\* the README's loop: collisions := hash.CheckCollisions(player), then
\* player.Move(sep.X, sep.Y) for an entry, on a grid that holds two rectangles
ResolveRects1 ==
    {[RectangleShape(x, 0, w, h) EXCEPT !.SpatialHash = TRUE] :
        x \in {0, 1}, w \in PureDims, h \in PureDims}
ResolveRects2 ==
    {[RectangleShape(x, y, w, h) EXCEPT !.SpatialHash = TRUE] :
        x \in -MaxCoord..MaxCoord, y \in -MaxCoord..MaxCoord, w \in PureDims, h \in PureDims}

\* the state after NewSpatialHash(2), NewRectangleShape for r1, NewRectangleShape for r2
InitResolve ==
    /\ pc = "ready"
    /\ adds = 0
    /\ args = <<>>
    /\ CellSize = 2
    /\ \E r1 \in ResolveRects1, r2 \in ResolveRects2 :
           LET c1 == AddCells(GetBounds(r1), 2)
               c2 == AddCells(GetBounds(r2), 2)
           IN  /\ objs = [i \in Ids |-> IF i = 1 THEN r1 ELSE r2]
               /\ Hash = HashWith(HashWith(EmptyMap, c1, Key(1)), c2, Key(2))
               /\ Backref = BackrefWith(BackrefWith(EmptyMap, c1, Key(1)), c2, Key(2))
    /\ ret = [op |-> "none"]

\* shape.Move(sep.X, sep.Y) for an entry of the list CheckCollisions(shape) returned
MoveBySeparatingVector(k) ==
    /\ pc = "ready"
    /\ ret.op = "CheckCollisions"
    /\ ret.key = k
    /\ \E i \in 1..Len(ret.collisions) :
           LET sep == ret.collisions[i].SeparatingVector
               os == [objs EXCEPT ![k.id].X = @ + sep.X, ![k.id].Y = @ + sep.Y]
           IN  AddCall(HashWithout(Hash, Backref, k), BackrefWithout(Backref, k), os, k,
                       [op |-> "Move", key |-> k, other |-> ret.collisions[i].Other,
                        by |-> sep])
    /\ UNCHANGED adds

NextResolve ==
    \/ \E k \in Keys(objs) : CheckCollisions(k)
    \/ \E k \in Keys(objs) : MoveBySeparatingVector(k)

SpecResolve == InitResolve /\ [][NextResolve]_vars

\* ------------------------------------------------------------------ the loops of Add
\* Add(shape) one loop step at a time, for a shape built by the caller on an empty grid.
\* args holds the locals: the bounds, xStep and yStep as fractions n/d, and x and y as
\* numerators over xStep.d and yStep.d.
MaxIter == 20       \* passes through the loop body per call of Add
AddCellSizes == {1, 2, 3}
AddDims == {0, 2, 4, 10}
AddShapes ==
    {RectangleShape(x, 0, w, h) : x \in {-1, 0, 1}, w \in AddDims, h \in AddDims}
        \cup {CircleShape(x, 0, r) : x \in {-1, 0, 1}, r \in PureRadii}

InitAdd ==
    /\ pc = "AddEntry"
    /\ adds = 0
    /\ args = <<>>
    /\ CellSize \in AddCellSizes
    /\ Hash = EmptyMap
    /\ Backref = EmptyMap
    /\ \E sh \in AddShapes : objs = [i \in Ids |-> IF i = 1 THEN sh ELSE NoObj]
    /\ ret = [op |-> "none"]

\* bounds, steps, x := x1, y := y1
AddEntry ==
    /\ pc = "AddEntry"
    /\ pc' = "AddLoop"
    /\ LET b == GetBounds(objs[1])
           xStep == StepOf(b[3] - b[1], CellSize)
           yStep == StepOf(b[4] - b[2], CellSize)
       IN  args' = [b |-> b, xStep |-> xStep, yStep |-> yStep,
                    x |-> b[1] * xStep.d, y |-> b[2] * yStep.d]
    /\ UNCHANGED <<adds, CellSize, Hash, Backref, objs, ret>>

\* the old loops, without the jump out of them
GotoDoneNever(xStep, yStep) == FALSE

\* if xStep == 0 || yStep == 0 { goto done }
GotoDone(xStep, yStep) == xStep.n = 0 \/ yStep.n = 0

\* one pass through the body of the inner loop, then y += yStep or goto done
AddBody ==
    /\ pc = "AddLoop"
    /\ args.x <= args.b[3] * args.xStep.d
    /\ args.y <= args.b[4] * args.yStep.d
    /\ Len(IF Key(1) \in DOMAIN Backref THEN Backref[Key(1)] ELSE <<>>) < MaxIter
    /\ LET hashPos == <<FloorDiv(args.x, args.xStep.d * CellSize),
                        FloorDiv(args.y, args.yStep.d * CellSize)>>
       IN  /\ Hash' = HashWith(Hash, <<hashPos>>, Key(1))
           /\ Backref' = BackrefWith(Backref, <<hashPos>>, Key(1))
    /\ IF GotoDone(args.xStep, args.yStep)
       THEN /\ pc' = "AddDone"
            /\ objs' = SetHash(objs, Key(1))
            /\ ret' = [op |-> "Add", key |-> Key(1)]
            /\ UNCHANGED args
       ELSE /\ args' = [args EXCEPT !.y = @ + args.yStep.n]
            /\ UNCHANGED <<pc, objs, ret>>
    /\ UNCHANGED <<adds, CellSize>>

\* the inner loop ends: x += xStep, y := y1
AddNextX ==
    /\ pc = "AddLoop"
    /\ args.x <= args.b[3] * args.xStep.d
    /\ args.y > args.b[4] * args.yStep.d
    /\ args' = [args EXCEPT !.x = @ + args.xStep.n, !.y = args.b[2] * args.yStep.d]
    /\ UNCHANGED <<pc, adds, CellSize, Hash, Backref, objs, ret>>

\* the outer loop ends: shape.SetHash(s)
AddReturn ==
    /\ pc = "AddLoop"
    /\ args.x > args.b[3] * args.xStep.d
    /\ pc' = "AddDone"
    /\ objs' = SetHash(objs, Key(1))
    /\ ret' = [op |-> "Add", key |-> Key(1)]
    /\ UNCHANGED <<adds, args, CellSize, Hash, Backref>>

NextAdd == AddEntry \/ AddBody \/ AddNextX \/ AddReturn

\* a call that has started keeps running: the loops are sequential code
SpecAdd == InitAdd /\ [][NextAdd]_vars /\ WF_vars(NextAdd)

\* ------------------------------------------------------------------ properties
AddingOps == {"Add", "NewRectangleShape", "NewCircleShape", "NewPointShape", "Move", "MoveTo"}

CellsHolding(k) == {c \in DOMAIN Hash : k \in Hash[c]}

\* C1: for every key of Backref, the set of cells in its backref list is exactly the
\* set of cells of Hash whose Shapes map holds it.
C1_BackrefConsistent ==
    \A k \in DOMAIN Backref : CellsOf(Backref[k]) = CellsHolding(k)

\* a shape was moved into several cells while another key has an emptied list
C1_Witness ==
    /\ ret.op \in {"Move", "MoveTo"}
    /\ ret.key \in DOMAIN Backref
    /\ Cardinality(CellsOf(Backref[ret.key])) >= 2
    /\ \E k \in DOMAIN Backref : k # ret.key /\ Backref[k] = <<>>

\* C2: when Remove(shape) has returned, the shape is in no cell of Hash and its
\* backref list is empty.
C2_NoStaleMembership ==
    ret.op = "Remove" =>
        /\ CellsHolding(ret.key) = {}
        /\ (ret.key \in DOMAIN Backref => Backref[ret.key] = <<>>)

\* Remove of a shape that was added twice without a Remove in between (its list held
\* each of its four cells twice)
C2_Witness ==
    /\ ret.op = "Remove"
    /\ ret.entries = 8
    /\ Cardinality(DOMAIN Hash) >= 4

\* the cells a bounding box overlaps
OverlappedCells(b, cs) ==
    {<<cx, cy>> : cx \in FloorDiv(b[1], cs)..FloorDiv(b[3], cs),
                  cy \in FloorDiv(b[2], cs)..FloorDiv(b[4], cs)}

\* C3: with cellSize > 0, after Add(shape) the shape is a member of every cell its
\* bounding box overlaps.
C3_AddCoversBox ==
    (pc = "ready" /\ CellSize > 0 /\ ret.op \in AddingOps) =>
        OverlappedCells(GetBounds(objs[ret.key.id]), CellSize) \subseteq CellsHolding(ret.key)

\* C4: every SpatialHash that exists has CellSize > 0 (construction with cellSize <= 0
\* fails).
C4_CellSizePositive ==
    /\ pc # "nogrid" => CellSize > 0
    /\ (ret.op = "NewSpatialHash" /\ ret.cellSize <= 0) => ret.err # ErrNil

\* C5: Remove reports ErrShapeNotFound exactly when the shape had no backref entries,
\* and nil otherwise.
C5_RemoveError ==
    ret.op = "Remove" => (ret.err = ErrShapeNotFound <=> ret.entries = 0)

\* C6: GetCollisionCandidates(shape) lists exactly the other shapes that share a cell
\* of Backref[shape], each once, and nothing else (no nil entry).
C6_CandidatesExact ==
    ret.op = "GetCollisionCandidates" =>
        /\ Len(ret.shapes) = Cardinality(ShapesMap(Hash, Backref, ret.key))
        /\ CellsOf(ret.shapes) = ShapesMap(Hash, Backref, ret.key)

\* C7: a CheckCollisions that meets a pair of variants with no narrow-phase test (the
\* queried shape or a candidate is a PointShape) reports an error.
C7_UnsupportedReported ==
    (/\ ret.op = "CheckCollisions"
     /\ \/ TypeOf(objs, ret.key) = "PointShape"
        \/ \E i \in 1..Len(ret.candidates) : TypeOf(objs, ret.candidates[i]) = "PointShape")
        => ret.err # ErrNil

\* the candidates with a narrow-phase vector of non-zero length
NonZeroCandidates(k) ==
    {c \in ShapesMap(Hash, Backref, k) :
        ~Col(objs, k, c).isNil /\ LengthPositive(Col(objs, k, c).v)}

\* C8: CheckCollisions(shape) returns one entry for each candidate whose separating
\* vector has non-zero length and none for any other; every entry has a non-nil Other
\* and a vector of length > 0, and no candidate appears twice.
C8_CollisionsExact ==
    ret.op = "CheckCollisions" =>
        /\ {ret.collisions[i].Other : i \in 1..Len(ret.collisions)} = NonZeroCandidates(ret.key)
        /\ Len(ret.collisions) = Cardinality(NonZeroCandidates(ret.key))
        /\ \A i \in 1..Len(ret.collisions) :
               /\ ret.collisions[i].Other # Nil
               /\ LengthPositive(ret.collisions[i].SeparatingVector)
               /\ ret.collisions[i].SeparatingVector = Col(objs, ret.key, ret.collisions[i].Other).v

\* one candidate is reported and another, sharing a cell, is not
C8_Witness ==
    /\ ret.op = "CheckCollisions"
    /\ Len(ret.collisions) = 1
    /\ Cardinality(ShapesMap(Hash, Backref, ret.key)) = 2

\* the closed intervals [aLo, aHi] and [bLo, bHi] are disjoint or only touch
DisjointOrTouching(aLo, aHi, bLo, bHi) == aHi <= bLo \/ bHi <= aLo

\* C9: collisionRectRect gives the zero vector for rectangles whose X or Y intervals
\* are disjoint or only touch (one's max edge is the other's min edge).
C9_TouchingIsNoCollision ==
    ret.op = "collisionRectRect" =>
        LET b1 == GetBounds(args[1])
            b2 == GetBounds(args[2])
        IN  (\/ DisjointOrTouching(b1[1], b1[3], b2[1], b2[3])
             \/ DisjointOrTouching(b1[2], b1[4], b2[2], b2[4]))
                => ret.v = Vector(0, 0)

\* bounds 0..4 and 4..6 on X, a shared stretch of Y
C9_Witness ==
    /\ ret.op = "collisionRectRect"
    /\ GetBounds(args[1])[3] = GetBounds(args[2])[1]
    /\ args[1].Width > 0 /\ args[2].Width > 0
    /\ args[1].Height > 0 /\ args[2].Height > 0
    /\ args[1].Y = args[2].Y
    /\ ret.v = Vector(0, 0)

\* the signed gap between the near edges on one axis
Push(c1, c2, aLo, aHi, bLo, bHi) == IF c1 < c2 THEN bLo - aHi ELSE bHi - aLo

\* C10: for rectangles whose intervals overlap on both axes the result has at most one
\* non-zero component: the push (gap between near edges, not positive when r1's centre
\* is the lesser) on the axis where its absolute value is smaller, 0 on the other;
\* centre (0,0) 10x10 against centre (8,0) 10x10 gives (-2, 0).
C10_LeastPenetrationAxis ==
    ret.op = "collisionRectRect" =>
        LET r1 == args[1]
            r2 == args[2]
            b1 == GetBounds(r1)
            b2 == GetBounds(r2)
            px == Push(r1.X, r2.X, b1[1], b1[3], b2[1], b2[3])
            py == Push(r1.Y, r2.Y, b1[2], b1[4], b2[2], b2[4])
        IN  /\ (b1[1] <= b2[3] /\ b2[1] <= b1[3] /\ b1[2] <= b2[4] /\ b2[2] <= b1[4]) =>
                /\ ret.v.X = 0 \/ ret.v.Y = 0
                /\ ret.v \in {Vector(px, 0), Vector(0, py)}
                /\ Abs(px) < Abs(py) => ret.v = Vector(px, 0)
                /\ Abs(py) < Abs(px) => ret.v = Vector(0, py)
                /\ r1.X < r2.X => px <= 0
                /\ r1.X >= r2.X => px >= 0
                /\ r1.Y < r2.Y => py <= 0
                /\ r1.Y >= r2.Y => py >= 0
            /\ args = ScenarioRects => ret.v = Vector(-2, 0)

C10_Witness ==
    /\ ret.op = "collisionRectRect"
    /\ args = ScenarioRects
    /\ ret.v = Vector(-2, 0)

\* ------------------------------------------------------------------ circle against circle
\* a + b*sqrt(n) as the pair [a, b]
Surd(a, b) == [a |-> a, b |-> b]
SurdSq(s, n) == Surd(s.a * s.a + s.b * s.b * n, 2 * s.a * s.b)
SurdAdd(s, t) == Surd(s.a + t.a, s.b + t.b)

\* n times the X and the Y component of v, where n = X*X + Y*Y of a scaled v:
\* (X, Y).Normalize().Mult(R - sqrt(n)) = (X, Y) * (R*sqrt(n) - n) / n
TimesN(v) ==
    IF v.scaled
    THEN LET n == SqLength(v)
         IN  <<Surd(-(n * v.X), v.X * v.R), Surd(-(n * v.Y), v.Y * v.R)>>
    ELSE <<Surd(v.X, 0), Surd(v.Y, 0)>>

\* the square of the length of (m * v), m as in TimesN
SqLengthTimesN(v) ==
    LET n == IF v.scaled THEN SqLength(v) ELSE 1
    IN  SurdAdd(SurdSq(TimesN(v)[1], n), SurdSq(TimesN(v)[2], n))

\* the square of the length of m * (d + v): where c1 stands relative to c2 once moved by v
SqDistanceAfterTimesN(d, v) ==
    LET n == IF v.scaled THEN SqLength(v) ELSE 1
        m == IF v.scaled THEN SqLength(v) ELSE 1
    IN  SurdAdd(SurdSq(SurdAdd(Surd(m * d.X, 0), TimesN(v)[1]), n),
                SurdSq(SurdAdd(Surd(m * d.Y, 0), TimesN(v)[2]), n))

\* C11: collisionCircCirc(A, B) is the zero vector when radiusA + radiusB is less than
\* the distance of the centres; otherwise its length is depth = radiusA + radiusB -
\* distance and A moved by it has its centre exactly radiusA + radiusB from B's;
\* centre (0,0) radius 5 against centre (8,0) radius 5 gives (-2, 0).
C11_CircCircSeparates ==
    ret.op = "collisionCircCirc" =>
        LET d == Sub(Vector(args[1].X, args[1].Y), Vector(args[2].X, args[2].Y))
            n == SqLength(d)
            R == args[1].Radius + args[2].Radius
            m == IF ret.v.scaled THEN n ELSE 1
            \* (m * (R - sqrt(n)))^2 and (m * R)^2
            depthSq == IF ret.v.scaled
                       THEN Surd(m * m * (R * R + n), -(2 * m * m * R))
                       ELSE Surd(R * R, 0)
        IN  /\ R * R < n => ret.v = Vector(0, 0)
            /\ R * R >= n =>
                   /\ ret.v.scaled \/ n = 0
                   /\ SqLengthTimesN(ret.v) = depthSq
                   /\ SqDistanceAfterTimesN(d, ret.v) = Surd(m * m * R * R, 0)
            \* distance 8: sqrt(n) = 8, n = 64
            /\ args = ScenarioCircs =>
                   /\ TimesN(ret.v)[1].a + TimesN(ret.v)[1].b * 8 = 64 * (-2)
                   /\ TimesN(ret.v)[2].a + TimesN(ret.v)[2].b * 8 = 64 * 0

\* ------------------------------------------------------------------ moves and factories
\* C12: Move or MoveTo on a shape with no grid (GetHash() is nil) completes, writes the
\* position and nothing else, and leaves the cells and the backrefs of the grid as they
\* were.
C12_MoveWithoutGrid ==
    [][(/\ pc = "ready"
        /\ ret'.op \in {"Move", "MoveTo"}
        /\ ~GetHash(objs[ret'.key.id]))
           => /\ pc' = "ready"
              /\ Hash' = Hash
              /\ Backref' = Backref
              /\ objs' = [objs EXCEPT ![ret'.key.id].X = objs'[ret'.key.id].X,
                                      ![ret'.key.id].Y = objs'[ret'.key.id].Y]]_vars

\* C13: on a grid with cellSize > 0, the value a factory returns has GetPosition() =
\* (x, y) and GetHash() = the grid, is itself a key of Backref, and is a member of the
\* cell that contains (x, y).
C13_FactoryPlacesShape ==
    (/\ pc = "ready"
     /\ CellSize > 0
     /\ ret.op \in {"NewRectangleShape", "NewCircleShape", "NewPointShape"})
        => LET k == ret.returned
               o == objs[k.id]
               cell == <<FloorDiv(ret.x, CellSize), FloorDiv(ret.y, CellSize)>>
           IN  /\ o.X = ret.x /\ o.Y = ret.y
               /\ GetHash(o)
               /\ k \in DOMAIN Backref
               /\ cell \in DOMAIN Hash /\ k \in Hash[cell]

\* ------------------------------------------------------------------ point pairs
\* the struct of shape j is registered in the grid
Registered(j) == Key(j) \in DOMAIN Backref /\ Backref[Key(j)] # <<>>

\* the result of CheckCollisions in ret has an entry for struct j with a vector of
\* non-zero length
ReportsStruct(j) ==
    \E i \in 1..Len(ret.collisions) :
        /\ ret.collisions[i].Other.id = j
        /\ LengthPositive(ret.collisions[i].SeparatingVector)

\* C14: for a point P made by NewPointShape and registered, CheckCollisions(P) has an
\* entry with a non-zero vector for every other registered point at P's position, every
\* rectangle with P strictly inside and every circle with P strictly inside; and it has
\* no entry for a point that is not at P's position.
C14_PointPairsDetected ==
    (/\ ret.op = "CheckCollisions"
     /\ pc = "ready"
     /\ CellSize > 0
     /\ TypeOf(objs, ret.key) = "PointShape"
     /\ Registered(ret.key.id))
        => LET P == objs[ret.key.id]
           IN  \A j \in Ids \ {ret.key.id} :
                 (objs[j] # NoObj /\ Registered(j)) =>
                   LET o == objs[j]
                       b == GetBounds(o)
                   IN  /\ (o.wrapped /\ o.X = P.X /\ o.Y = P.Y) => ReportsStruct(j)
                       /\ (o.wrapped /\ ~(o.X = P.X /\ o.Y = P.Y)) =>
                              ~\E i \in 1..Len(ret.collisions) : ret.collisions[i].Other.id = j
                       /\ (/\ ~o.wrapped
                           /\ o.kind = "RectangleShape"
                           /\ b[1] < P.X /\ P.X < b[3] /\ b[2] < P.Y /\ P.Y < b[4])
                              => ReportsStruct(j)
                       /\ (/\ o.kind = "CircleShape"
                           /\ (P.X - o.X) * (P.X - o.X) + (P.Y - o.Y) * (P.Y - o.Y)
                                  < o.Radius * o.Radius)
                              => ReportsStruct(j)

\* ------------------------------------------------------------------ overlapping circles
\* C19: for two registered circles A and B that share a cell and have radiusA + radiusB
\* greater than the distance of their centres (equal centres included),
\* CheckCollisions(A) has an entry for B with a vector of non-zero length.
C19_OverlappingCirclesReported ==
    (/\ ret.op = "CheckCollisions"
     /\ pc = "ready"
     /\ TypeOf(objs, ret.key) = "CircleShape")
        => \A B \in ShapesMap(Hash, Backref, ret.key) :
             LET a == objs[ret.key.id]
                 b == objs[B.id]
             IN  (/\ TypeOf(objs, B) = "CircleShape"
                  /\ (a.Radius + b.Radius) * (a.Radius + b.Radius)
                         > (a.X - b.X) * (a.X - b.X) + (a.Y - b.Y) * (a.Y - b.Y))
                    => \E i \in 1..Len(ret.collisions) :
                           /\ ret.collisions[i].Other = B
                           /\ LengthPositive(ret.collisions[i].SeparatingVector)

\* ------------------------------------------------------------------ rectangle pairs
\* the open intervals (aLo, aHi) and (bLo, bHi) meet
InteriorsMeet1D(aLo, aHi, bLo, bHi) == aLo < bHi /\ bLo < aHi

InteriorsMeet(r1, r2) ==
    /\ InteriorsMeet1D(GetBounds(r1)[1], GetBounds(r1)[3], GetBounds(r2)[1], GetBounds(r2)[3])
    /\ InteriorsMeet1D(GetBounds(r1)[2], GetBounds(r1)[4], GetBounds(r2)[2], GetBounds(r2)[4])

\* C18: for overlapping rectangles r1, r2 (centres equal on an axis or not),
\* collisionRectRect(r1, r2) = -collisionRectRect(r2, r1).
C18_RectRectAntisymmetric ==
    (ret.op = "collisionRectRect" /\ InteriorsMeet(args[1], args[2]))
        => ret.v = Negate(collisionRectRect(args[2], args[1]))

\* ------------------------------------------------------------------ rectangle against circle
\* the circle's bounding square
BoundingSquare(c) == RectangleShape(c.X, c.Y, c.Radius * 2, c.Radius * 2)

StrictlyBetween(lo, v, hi) == lo < v /\ v < hi

\* the corner of r nearest to the centre of c, as a circle of radius 0
NearestCorner(r, c) ==
    LET b == GetBounds(r)
        dist(co) == (co[1] - c.X) * (co[1] - c.X) + (co[2] - c.Y) * (co[2] - c.Y)
        corners == {<<b[1], b[2]>>, <<b[1], b[4]>>, <<b[3], b[2]>>, <<b[3], b[4]>>}
        co == CHOOSE p \in corners : \A q \in corners : dist(p) <= dist(q)
    IN  CircleShape(co[1], co[2], 0)

\* the bounding square of c and r are disjoint or only touch on some axis
SquareApart(r, c) ==
    LET b == GetBounds(r)
        s == GetBounds(BoundingSquare(c))
    IN  DisjointOrTouching(b[1], b[3], s[1], s[3]) \/ DisjointOrTouching(b[2], b[4], s[2], s[4])

C15_MoveUnOverlaps ==
    (ret.op = "Move" /\ pc = "ready") =>
        LET r1 == objs[ret.key.id]
            r2 == objs[ret.other.id]
        IN  /\ ~InteriorsMeet(r1, r2)
            /\ collisionRectRect(r1, r2) = Vector(0, 0)
            /\ \A candidates \in CandidateLists(Hash, Backref, ret.key) :
                   \A i \in 1..Len(Collisions(objs, ret.key, candidates)) :
                       Collisions(objs, ret.key, candidates)[i].Other # ret.other

\* r1 was pushed out along X and now shares an edge and a cell with r2
C15_Witness ==
    /\ ret.op = "Move"
    /\ pc = "ready"
    /\ ret.by.X # 0
    /\ ret.other \in ShapesMap(Hash, Backref, ret.key)
    /\ objs[ret.key.id].Width > 0 /\ objs[ret.other.id].Width > 0
    /\ \/ GetBounds(objs[ret.key.id])[3] = GetBounds(objs[ret.other.id])[1]
       \/ GetBounds(objs[ret.key.id])[1] = GetBounds(objs[ret.other.id])[3]

\* ------------------------------------------------------------------ termination of Add
\* the list Add has built is the one AddCells gives
AddCellsAgrees ==
    pc = "AddDone" => Backref[Key(1)] = AddCells(GetBounds(objs[1]), CellSize)

\* C16: with cellSize > 0 every call of Add returns, also for a box with zero extent on
\* one or both axes; for zero extent on both axes the shape is then in exactly one
\* cell, the cell that contains its position.
C16_AddTerminates ==
    <>(/\ pc = "AddDone"
       /\ GetHash(objs[1])
       /\ (args.xStep.n = 0 /\ args.yStep.n = 0) =>
              /\ Backref[Key(1)] = << <<FloorDiv(objs[1].X, CellSize),
                                       FloorDiv(objs[1].Y, CellSize)>> >>
              /\ CellsHolding(Key(1)) = {<<FloorDiv(objs[1].X, CellSize),
                                           FloorDiv(objs[1].Y, CellSize)>>})

\* Add has returned for a box with zero width and positive height, and for no other
\* reason than the jump out of the loops
C16_Witness ==
    /\ pc = "AddDone"
    /\ args.xStep.n = 0
    /\ args.yStep.n > 0
    /\ Len(Backref[Key(1)]) = 1

====
